---- MODULE Spec2Model ----
(***************************************************************************)
(* Trade settlement of popmechanic/my-public-shares.                       *)
(*                                                                         *)
(* The store is the Supabase database of the migrations: user_accounts     *)
(* (balance), profiles (total_shares, available_shares), shares (one row   *)
(* per owner and tradeable user) and transactions.  A settlement call is a *)
(* sequence of awaited store calls; every awaited call is one atomic step, *)
(* and calls of different processes interleave between steps.              *)
(*                                                                         *)
(* Money is counted in cents (DECIMAL(10,2)), shares in units (INTEGER).   *)
(***************************************************************************)
EXTENDS Integers, FiniteSets, Sequences, TLC

\* ------------------------------------------------------------------ bounds
MaxQty == 2
MaxPrice == 2
MaxCalls == 2
MaxFaults == 1
InitBalance == 4
InitShares == 3

Users == {"u1", "u2"}
Issuers == {"i1", "i2"}
Procs == {1, 2}
SeqProcs == {1}
Quantities == 1..MaxQty
Prices == 1..MaxPrice
AnyQuantities == 0..MaxQty
AnyPrices == 0..MaxPrice
Sides == {"buy", "sell"}
\* what one awaited store call can do: answer, answer with an error ({error}),
\* or reject (an exception, caught by the call's catch); a call that does not
\* answer "ok" has changed no row
Outcomes == {"ok", "err", "throw"}

VARIABLES
  balance,       \* user_accounts.balance, per user
  available,     \* profiles.available_shares, per tradeable user
  total,         \* profiles.total_shares, per tradeable user
  shares,        \* shares rows, keyed by <<owner_id, tradeable_user_id>>
  transactions,  \* the transactions rows
  nextId,        \* the next row id the database generates
  call,          \* per process: the settlement call in progress
  pre,           \* per process: the store as it was when the call began
  budget,        \* store failures that may still happen
  calls,         \* settlement calls begun so far
  failed,        \* some call so far has returned success: false
  maint,         \* the audit or repair run in progress
  profiles,      \* profiles.is_tradeable and current_price, per tradeable user
  hist           \* what the audit and repair runs since the last settlement did

store == <<balance, available, total, shares, transactions, nextId>>
vars ==
  <<balance, available, total, shares, transactions, nextId, call, pre, budget, calls,
    failed, maint, profiles, hist>>

\* ------------------------------------------------------------------- store
\* no shares row for the key (maybeSingle yields null)
NoShares == [id |-> 0, quantity |-> 0, average_price |-> 0]

Snapshot ==
  [balance |-> balance, available |-> available, shares |-> shares,
   transactions |-> transactions]

NoSnapshot ==
  [balance |-> [u \in Users |-> 0], available |-> [i \in Issuers |-> 0],
   shares |-> [k \in Users \X Issuers |-> NoShares], transactions |-> {}]

\* Row level security: a statement for which the table has no policy touches
\* no row and reports no error.
SharesDeletePolicy == FALSE
TransactionsDeletePolicy == FALSE

\* numeric(10,2) keeps two decimals: the quotient num/den in cents, half up
RoundCents(num, den) == (2 * num + den) \div (2 * den)

RECURSIVE SumQuantity(_)
SumQuantity(S) ==
  IF S = {} THEN 0
  ELSE LET t == CHOOSE x \in S : TRUE IN t.quantity + SumQuantity(S \ {t})

\* ------------------------------------------------------------------- audit
RECURSIVE SumHeld(_, _)
\* the quantities of the shares rows of tradeable user i, over the owners in Us
SumHeld(Us, i) ==
  IF Us = {} THEN 0
  ELSE LET u == CHOOSE x \in Us : TRUE IN shares[<<u, i>>].quantity + SumHeld(Us \ {u}, i)

TotalBought(i) ==
  SumQuantity({t \in transactions :
                 t.tradeable_user_id = i /\ t.transaction_type = "buy"})

TotalSold(i) ==
  SumQuantity({t \in transactions :
                 t.tradeable_user_id = i /\ t.transaction_type = "sell"})

ExpectedAvailable(i) == total[i] - (TotalBought(i) - TotalSold(i))

Discrepancy(i) == available[i] - ExpectedAvailable(i)

\* the columns of a profiles row that settlement does not write, as the
\* sign-up of a tradeable user leaves them
TradeableProfile == [is_tradeable |-> TRUE, current_price |-> 1]

\* ------------------------------------------------------------------- calls
NoResult == [success |-> FALSE, error |-> "", transactionId |-> 0]
Failure(msg) == [success |-> FALSE, error |-> msg, transactionId |-> 0]
\* a success that carries no transaction id
SuccessNoId(id) == [success |-> TRUE, error |-> "", transactionId |-> 0]

Success(id) == [success |-> TRUE, error |-> "", transactionId |-> id]
Unexpected == Failure("An unexpected error occurred during trade execution")

Idle ==
  [pc |-> "idle", impl |-> "none", buyer |-> "u1", issuer |-> "i1", side |-> "buy",
   quantity |-> 0, price |-> 0, balRead |-> 0, availRead |-> 0, totalRead |-> 0,
   existing |-> NoShares, txId |-> 0, rb |-> <<>>, err |-> "", rbFailed |-> FALSE,
   threw |-> FALSE, result |-> NoResult]

Done(c, res) == [c EXCEPT !.pc = "done", !.result = res]

\* a catch block that returns the message of the exception it caught
ThrownAsRejection(c) == Done([c EXCEPT !.threw = TRUE], Failure("Failed to fetch"))

\* a store call threw: the catch block of the entry point returns
Thrown(c) == Done([c EXCEPT !.threw = TRUE], Unexpected)

\* one awaited store call with outcome o: failures are drawn from a budget
Fault(o) ==
  /\ o = "ok" \/ budget > 0
  /\ budget' = IF o = "ok" THEN budget ELSE budget - 1

TotalAmount(c) == c.quantity * c.price

\* the funds check comparing the balance with the price of one share
InsufficientFundsPerShare(c, bal) == c.side = "buy" /\ bal < c.price

InsufficientFunds(c, bal) == c.side = "buy" /\ bal < TotalAmount(c)

InsufficientShares(c, avail) == c.side = "buy" /\ avail < c.quantity

NewBalance(c) ==
  IF c.side = "buy" THEN c.balRead - TotalAmount(c) ELSE c.balRead + TotalAmount(c)

NewAvailableShares(c) ==
  IF c.side = "buy" THEN c.availRead - c.quantity ELSE c.availRead + c.quantity

NewQuantity(c) ==
  IF c.side = "buy" THEN c.existing.quantity + c.quantity
  ELSE c.existing.quantity - c.quantity

\* the plain mean of the old average and the new price, quantities ignored
NewAveragePriceUnweighted(c) ==
  IF c.side = "buy"
    THEN RoundCents(c.existing.average_price + c.price, 2)
    ELSE c.existing.average_price

NewAveragePrice(c) ==
  IF c.side = "buy"
    THEN RoundCents(c.existing.quantity * c.existing.average_price + c.quantity * c.price,
                    c.existing.quantity + c.quantity)
    ELSE c.existing.average_price

\* the row with the price of one share written as its total_amount
TransactionRowUnitTotal(c, id) ==
  [id |-> id, buyer_id |-> c.buyer,
   seller_id |-> IF c.side = "sell" THEN c.buyer ELSE "null",
   tradeable_user_id |-> c.issuer, transaction_type |-> c.side,
   quantity |-> c.quantity, price_per_share |-> c.price,
   total_amount |-> c.price]

TransactionRow(c, id) ==
  [id |-> id, buyer_id |-> c.buyer,
   seller_id |-> IF c.side = "sell" THEN c.buyer ELSE "null",
   tradeable_user_id |-> c.issuer, transaction_type |-> c.side,
   quantity |-> c.quantity, price_per_share |-> c.price,
   total_amount |-> TotalAmount(c)]

\* .delete().eq('id', id) on shares
DeleteSharesRow(k, id) ==
  IF SharesDeletePolicy /\ shares[k].id = id
    THEN [shares EXCEPT ![k] = NoShares] ELSE shares

\* .update({quantity, average_price}).eq('tradeable_user_id', ...) on shares:
\* every holder's row of the issuer
UpdateSharesRowsOfIssuer(k, id, q, avg) ==
  [kk \in DOMAIN shares |->
     IF kk[2] = k[2] /\ shares[kk].id # 0
       THEN [id |-> shares[kk].id, quantity |-> q, average_price |-> avg]
       ELSE shares[kk]]

\* .update({quantity, average_price}).eq('id', id) on shares
UpdateSharesRow(k, id, q, avg) ==
  IF shares[k].id = id
    THEN [shares EXCEPT ![k] = [id |-> id, quantity |-> q, average_price |-> avg]]
    ELSE shares

\* an update of profiles that sets total_shares with available_shares
TotalSharesAfterUpdateResetting(i, v) == [total EXCEPT ![i] = v]

\* total_shares after .update({ available_shares: v }) on the profiles row of i
TotalSharesAfterUpdate(i, v) == total

\* .delete().lte('id', id) on transactions, with a delete policy
DeleteTransactionRowsUpTo(id) == {t \in transactions : t.id > id}

\* .delete().eq('id', id) on transactions
DeleteTransactionRow(id) ==
  IF TransactionsDeletePolicy THEN {t \in transactions : t.id # id} ELSE transactions

\* where the call goes once the shares row (or null) has been read
AfterReadShares(c) ==
  IF c.existing.id # 0
    THEN IF NewQuantity(c) <= 0 THEN "deleteShares" ELSE "updateShares"
    ELSE IF c.side = "buy" THEN "insertShares" ELSE "noShares"

\* ------------------------------------------------- audit and repair runs
\* the columns of a profiles row the audit and the repair select
ProfileRow(i) == [total_shares |-> total[i], available_shares |-> available[i]]
NoProfile == [total_shares |-> 0, available_shares |-> 0]

NoReport ==
  [made |-> FALSE, expected |-> 0, actual |-> 0, discrepancy |-> 0, consistent |-> FALSE]

IdleMaint ==
  [pc |-> "idle", kind |-> "none", target |-> {},
   users |-> [i \in Issuers |-> NoProfile], todo |-> {}, cur |-> "none", correct |-> 0,
   report |-> [i \in Issuers |-> NoReport]]

\* prev: the last audit's report per issuer; lastFix, lastWrites: how the last
\* repair run went and how many rows it wrote; writes, clean, threw, start:
\* the repair run in progress
NoHist ==
  [prev |-> [i \in Issuers |-> NoReport], lastFix |-> "none", lastWrites |-> 0,
   writes |-> 0, clean |-> TRUE, threw |-> FALSE, start |-> NoSnapshot]

\* expected availability with buys and sells both counted as issued
ExpectedAvailableSumMovement(u, i) == u.total_shares - (TotalBought(i) + TotalSold(i))

\* expectedAvailable of the audit, from the profiles row read and the
\* transactions rows of the issuer
ExpectedAvailableOf(u, i) == u.total_shares - (TotalBought(i) - TotalSold(i))

AuditReport(u, i) ==
  LET expectedAvailable == ExpectedAvailableOf(u, i)
      discrepancy == u.available_shares - expectedAvailable
  IN [made |-> TRUE, expected |-> expectedAvailable, actual |-> u.available_shares,
      discrepancy |-> discrepancy, consistent |-> (discrepancy = 0)]

\* an audit that writes the expected value back, as the repair does
AvailableAfterAuditRepairing(u, i) ==
  [available EXCEPT ![i] = ExpectedAvailableOf(u, i)]

\* profiles.available_shares after the audit's loop body: it only logs
AvailableAfterAudit(u, i) == available

\* the correction computed from the stored counter instead of total_shares
CorrectAvailableSharesFromAvailable(u, i) ==
  u.available_shares - (TotalBought(i) - TotalSold(i))

\* correctAvailableShares of the repair
CorrectAvailableShares(u, i) == u.total_shares - (TotalBought(i) - TotalSold(i))

\* a repair that writes every row, matching or not
AlwaysFix(u, correct) == TRUE

\* the repair writes only a row whose counter differs
NeedsFix(u, correct) == u.available_shares # correct

\* the repair's update without its .eq('id', user.id): every row is written
AvailableAfterFixEveryRow(i, v) == [j \in Issuers |-> v]

\* .update({ available_shares: v }).eq('id', user.id) of the repair
AvailableAfterFix(i, v) == [available EXCEPT ![i] = v]

\* .eq('is_tradeable', true) on profiles
Tradeable(S) == {i \in S : profiles[i].is_tradeable}

\* the run has returned
MDone(m) == [m EXCEPT !.pc = "done", !.todo = {}, !.cur = "none", !.correct = 0]

\* the for loop goes on to the rows not yet visited
NextUser(m, rest) ==
  IF rest = {} THEN MDone(m)
  ELSE [m EXCEPT !.pc = "readTransactions", !.todo = rest, !.cur = "none", !.correct = 0]

M_Start(kind, target) ==
  /\ maint.pc = "idle"
  /\ maint' = [IdleMaint EXCEPT !.pc = "readProfiles", !.kind = kind, !.target = target]
  /\ hist' = IF kind = "fix"
               THEN [hist EXCEPT !.writes = 0, !.clean = TRUE, !.threw = FALSE,
                                 !.start = Snapshot]
               ELSE hist
  /\ UNCHANGED <<store, call, pre, budget, calls, failed, profiles>>

\* the run's caller takes over again
M_Return ==
  /\ maint.pc = "done"
  /\ maint' = IdleMaint
  /\ hist' = IF maint.kind = "fix"
               THEN [hist EXCEPT !.lastFix = IF hist.clean THEN "clean" ELSE "faulty",
                                 !.lastWrites = hist.writes,
                                 !.writes = 0, !.clean = TRUE, !.threw = FALSE,
                                 !.start = NoSnapshot]
               ELSE [hist EXCEPT !.prev = [i \in Issuers |->
                                            IF maint.report[i].made THEN maint.report[i]
                                            ELSE hist.prev[i]]]
  /\ UNCHANGED <<store, call, pre, budget, calls, failed, profiles>>

\* ------------------------------------------------ debugAllTradeableUsers
A_Start == M_Start("auditAll", Issuers)

A_ReadProfiles ==
  /\ maint.kind = "auditAll" /\ maint.pc = "readProfiles"
  /\ \E o \in Outcomes :
       /\ Fault(o)
       /\ maint' = IF o = "ok"
                     THEN NextUser([maint EXCEPT !.users = [i \in Issuers |-> ProfileRow(i)]],
                                   Tradeable(maint.target))
                     ELSE MDone(maint)
  /\ UNCHANGED <<store, call, pre, calls, failed, hist, profiles>>

A_ReadTransactions ==
  /\ maint.kind = "auditAll" /\ maint.pc = "readTransactions"
  /\ \E i \in maint.todo, o \in Outcomes :
       /\ Fault(o)
       /\ available' = IF o = "ok" THEN AvailableAfterAudit(maint.users[i], i) ELSE available
       /\ maint' =
            CASE o = "throw" -> MDone(maint)
              [] o = "err" -> NextUser(maint, maint.todo \ {i})
              [] OTHER -> NextUser([maint EXCEPT !.report[i] = AuditReport(maint.users[i], i)],
                                   maint.todo \ {i})
  /\ UNCHANGED <<balance, total, shares, transactions, nextId, call, pre, calls, failed, hist, profiles>>

\* -------------------------------------------------- debugUserTradingData
\* the audit of one user, here a tradeable one
U_Start == \E i \in Issuers : M_Start("auditUser", {i})

U_ReadProfile ==
  /\ maint.kind = "auditUser" /\ maint.pc = "readProfiles"
  /\ \E o \in Outcomes :
       /\ Fault(o)
       /\ maint' = IF o = "ok"
                     THEN [maint EXCEPT !.pc = "readOwn",
                                        !.users = [i \in Issuers |->
                                                     IF i \in maint.target THEN ProfileRow(i)
                                                     ELSE NoProfile]]
                     ELSE MDone(maint)
  /\ UNCHANGED <<store, call, pre, calls, failed, hist, profiles>>

\* the reads of the user's account, shares and own transactions: an error is
\* logged and the run goes on
U_ReadOwn ==
  /\ maint.kind = "auditUser" /\ maint.pc = "readOwn"
  /\ \E o \in Outcomes :
       /\ Fault(o)
       /\ maint' = IF o = "throw" THEN MDone(maint)
                   ELSE [maint EXCEPT !.pc = "readTransactions", !.todo = maint.target]
  /\ UNCHANGED <<store, call, pre, calls, failed, hist, profiles>>

U_ReadTransactions ==
  /\ maint.kind = "auditUser" /\ maint.pc = "readTransactions"
  /\ \E i \in maint.todo, o \in Outcomes :
       /\ Fault(o)
       /\ maint' = IF o = "ok"
                     THEN MDone([maint EXCEPT !.report[i] = AuditReport(maint.users[i], i)])
                     ELSE MDone(maint)
  /\ UNCHANGED <<store, call, pre, calls, failed, hist, profiles>>

\* ---------------------------------------------- fixShareCountDiscrepancies
F_Start == M_Start("fix", Issuers)

F_ReadProfiles ==
  /\ maint.kind = "fix" /\ maint.pc = "readProfiles"
  /\ \E o \in Outcomes :
       /\ Fault(o)
       /\ maint' = IF o = "ok"
                     THEN NextUser([maint EXCEPT !.users = [i \in Issuers |-> ProfileRow(i)]],
                                   Tradeable(maint.target))
                     ELSE MDone(maint)
       /\ hist' = [hist EXCEPT !.clean = hist.clean /\ o = "ok", !.threw = (o = "throw")]
  /\ UNCHANGED <<store, call, pre, calls, failed, profiles>>

F_ReadTransactions ==
  /\ maint.kind = "fix" /\ maint.pc = "readTransactions"
  /\ \E i \in maint.todo, o \in Outcomes :
       LET correct == CorrectAvailableShares(maint.users[i], i) IN
       /\ Fault(o)
       /\ maint' =
            CASE o = "throw" -> MDone(maint)
              [] o = "err" -> NextUser(maint, maint.todo \ {i})
              [] OTHER ->
                   IF NeedsFix(maint.users[i], correct)
                     THEN [maint EXCEPT !.pc = "update", !.todo = maint.todo \ {i},
                                        !.cur = i, !.correct = correct]
                     ELSE NextUser(maint, maint.todo \ {i})
       /\ hist' = [hist EXCEPT !.clean = hist.clean /\ o = "ok", !.threw = (o = "throw")]
  /\ UNCHANGED <<store, call, pre, calls, failed, profiles>>

F_Update ==
  /\ maint.kind = "fix" /\ maint.pc = "update"
  /\ \E o \in Outcomes :
       /\ Fault(o)
       /\ available' = IF o = "ok" THEN AvailableAfterFix(maint.cur, maint.correct)
                       ELSE available
       /\ total' = IF o = "ok" THEN TotalSharesAfterUpdate(maint.cur, maint.correct) ELSE total
       /\ maint' = IF o = "throw" THEN MDone(maint) ELSE NextUser(maint, maint.todo)
       /\ hist' = [hist EXCEPT !.writes = hist.writes + 1,
                               !.clean = hist.clean /\ o = "ok",
                               !.threw = (o = "throw")]
  /\ UNCHANGED <<balance, shares, transactions, nextId, call, pre, calls, failed, profiles>>

StepM ==
  \/ A_Start \/ A_ReadProfiles \/ A_ReadTransactions
  \/ U_Start \/ U_ReadProfile \/ U_ReadOwn \/ U_ReadTransactions
  \/ F_Start \/ F_ReadProfiles \/ F_ReadTransactions \/ F_Update
  \/ M_Return

\* -------------------------------------------- row-level policies, profiles
\* whoever can sign in: auth.uid() is a user's or a tradeable user's id
Authenticated == Users \cup Issuers

\* the profiles row of i, with the columns an UPDATE can set (user_id, the
\* key of the row here, is not among them)
FullProfileRow(i) ==
  [total_shares |-> total[i], available_shares |-> available[i],
   current_price |-> profiles[i].current_price,
   is_tradeable |-> profiles[i].is_tradeable]

\* the rows an UPDATE may write
ProfileRows ==
  [total_shares : 0..InitShares, available_shares : 0..InitShares,
   current_price : Prices, is_tradeable : BOOLEAN]

\* "Users can update their own profile": USING (auth.uid() = user_id), which
\* is also its check of the new row
OwnProfilePolicy(r, i) == r = i

\* "Trading updates allowed for tradeable users": USING (is_tradeable = true)
TradingUpdatesUsing(old) == old.is_tradeable = TRUE

\* ... WITH CHECK (is_tradeable = true)
TradingUpdatesCheck(new) == new.is_tradeable = TRUE

\* the permissive policies are OR-ed: the old row must pass a USING
\* expression and the new row a WITH CHECK expression
UpdatePermitted(r, i, old, new) ==
  /\ OwnProfilePolicy(r, i) \/ TradingUpdatesUsing(old)
  /\ OwnProfilePolicy(r, i) \/ TradingUpdatesCheck(new)

\* UPDATE profiles SET ... WHERE user_id = i, issued by r: the row becomes
\* new if the policies let it
P_Update(r, i) ==
  \E new \in ProfileRows :
    /\ new # FullProfileRow(i)
    /\ UpdatePermitted(r, i, FullProfileRow(i), new)
    /\ total' = [total EXCEPT ![i] = new.total_shares]
    /\ available' = [available EXCEPT ![i] = new.available_shares]
    /\ profiles' = [profiles EXCEPT ![i] = [is_tradeable |-> new.is_tradeable,
                                            current_price |-> new.current_price]]
    /\ UNCHANGED <<balance, shares, transactions, nextId, call, pre, budget, calls,
                   failed, maint, hist>>

\* ------------------------------------------------------------------- start
Start(p, impl, Bs, Is, Qs, Ps, n) ==
  /\ call[p].pc = "idle"
  /\ calls < n
  /\ \E b \in Bs, i \in Is, q \in Qs, pr \in Ps, s \in Sides :
       call' = [call EXCEPT ![p] =
                  [Idle EXCEPT !.pc = "readBalance", !.impl = impl, !.buyer = b,
                               !.issuer = i, !.side = s, !.quantity = q, !.price = pr]]
  /\ pre' = [pre EXCEPT ![p] = Snapshot]
  /\ calls' = calls + 1
  /\ hist' = NoHist
  /\ UNCHANGED <<store, budget, failed, maint, profiles>>

\* the order of call c is valid against the store s it starts from: a buy has
\* the funds and the supply, a sell is covered by the buyer's shares row
ValidOrder(s, c) ==
  IF c.side = "buy"
    THEN /\ s.balance[c.buyer] >= TotalAmount(c)
         /\ s.available[c.issuer] >= c.quantity
    ELSE /\ s.shares[<<c.buyer, c.issuer>>].id # 0
         /\ s.shares[<<c.buyer, c.issuer>>].quantity >= c.quantity

\* a call is made with an order that is valid against the store as it is
StartValid(p, impl, Bs, Is, Qs, Ps, n) ==
  /\ call[p].pc = "idle"
  /\ calls < n
  /\ \E b \in Bs, i \in Is, q \in Qs, pr \in Ps, s \in Sides :
       LET c == [Idle EXCEPT !.pc = "readBalance", !.impl = impl, !.buyer = b,
                             !.issuer = i, !.side = s, !.quantity = q, !.price = pr]
       IN /\ ValidOrder(Snapshot, c)
          /\ call' = [call EXCEPT ![p] = c]
  /\ pre' = [pre EXCEPT ![p] = Snapshot]
  /\ calls' = calls + 1
  /\ hist' = NoHist
  /\ UNCHANGED <<store, budget, failed, maint, profiles>>

\* the caller takes the result
Return(p) ==
  /\ call[p].pc = "done"
  /\ call' = [call EXCEPT ![p] = Idle]
  /\ pre' = [pre EXCEPT ![p] = NoSnapshot]
  /\ failed' = (failed \/ ~call[p].result.success)
  /\ UNCHANGED <<store, budget, calls, maint, hist, profiles>>

\* ------------------------------------------- executeTradeTransaction steps
T_ReadBalance(p) ==
  LET c == call[p] IN
  /\ c.impl = "orig" /\ c.pc = "readBalance"
  /\ \E o \in Outcomes :
       /\ Fault(o)
       /\ call' = [call EXCEPT ![p] =
            CASE o = "throw" -> Thrown(c)
              [] o = "err" -> Done(c, Failure("Failed to fetch buyer account information"))
              [] o = "ok" /\ InsufficientFunds(c, balance[c.buyer]) ->
                   Done(c, Failure("Insufficient funds"))
              [] OTHER -> [c EXCEPT !.pc = "readProfile", !.balRead = balance[c.buyer]]]
  /\ UNCHANGED <<store, pre, calls, failed, maint, hist, profiles>>

T_ReadProfile(p) ==
  LET c == call[p] IN
  /\ c.impl = "orig" /\ c.pc = "readProfile"
  /\ \E o \in Outcomes :
       /\ Fault(o)
       /\ call' = [call EXCEPT ![p] =
            CASE o = "throw" -> Thrown(c)
              [] o = "err" -> Done(c, Failure("Failed to fetch trader information"))
              [] o = "ok" /\ InsufficientShares(c, available[c.issuer]) ->
                   Done(c, Failure("Insufficient shares available"))
              [] OTHER -> [c EXCEPT !.pc = "writeBalance",
                                    !.availRead = available[c.issuer]]]
  /\ UNCHANGED <<store, pre, calls, failed, maint, hist, profiles>>

T_WriteBalance(p) ==
  LET c == call[p] IN
  /\ c.impl = "orig" /\ c.pc = "writeBalance"
  /\ \E o \in Outcomes :
       /\ Fault(o)
       /\ balance' = IF o = "ok" THEN [balance EXCEPT ![c.buyer] = NewBalance(c)]
                     ELSE balance
       /\ call' = [call EXCEPT ![p] =
            CASE o = "throw" -> Thrown(c)
              [] o = "err" -> Done(c, Failure("Failed to update account balance"))
              [] OTHER -> [c EXCEPT !.pc = "writeAvailable"]]
  /\ UNCHANGED <<available, total, shares, transactions, nextId, pre, calls, failed, maint, hist, profiles>>

T_WriteAvailable(p) ==
  LET c == call[p] IN
  /\ c.impl = "orig" /\ c.pc = "writeAvailable"
  /\ \E o \in Outcomes :
       /\ Fault(o)
       /\ available' = IF o = "ok"
                         THEN [available EXCEPT ![c.issuer] = NewAvailableShares(c)]
                         ELSE available
       /\ total' = IF o = "ok" THEN TotalSharesAfterUpdate(c.issuer, NewAvailableShares(c)) ELSE total
       /\ call' = [call EXCEPT ![p] =
            CASE o = "throw" -> Thrown(c)
              [] o = "err" -> Done(c, Failure("Failed to update share availability"))
              [] OTHER -> [c EXCEPT !.pc = "readShares"]]
  /\ UNCHANGED <<balance, shares, transactions, nextId, pre, calls, failed, maint, hist, profiles>>

T_ReadShares(p) ==
  LET c == call[p]
      read == [c EXCEPT !.existing = shares[<<c.buyer, c.issuer>>]]
  IN
  /\ c.impl = "orig" /\ c.pc = "readShares"
  /\ \E o \in Outcomes :
       /\ Fault(o)
       /\ call' = [call EXCEPT ![p] =
            CASE o = "throw" -> Thrown(c)
              [] o = "err" -> Done(c, Failure("Failed to check existing shares"))
              [] o = "ok" /\ AfterReadShares(read) = "noShares" ->
                   Done(read, Failure("Cannot sell shares you do not own"))
              [] OTHER -> [read EXCEPT !.pc = AfterReadShares(read)]]
  /\ UNCHANGED <<store, pre, calls, failed, maint, hist, profiles>>

T_DeleteShares(p) ==
  LET c == call[p] IN
  /\ c.impl = "orig" /\ c.pc = "deleteShares"
  /\ \E o \in Outcomes :
       /\ Fault(o)
       /\ shares' = IF o = "ok" THEN DeleteSharesRow(<<c.buyer, c.issuer>>, c.existing.id)
                    ELSE shares
       /\ call' = [call EXCEPT ![p] =
            CASE o = "throw" -> Thrown(c)
              [] o = "err" -> Done(c, Failure("Failed to update shares record"))
              [] OTHER -> [c EXCEPT !.pc = "insertTransaction"]]
  /\ UNCHANGED <<balance, available, total, transactions, nextId, pre, calls, failed, maint, hist, profiles>>

T_UpdateShares(p) ==
  LET c == call[p] IN
  /\ c.impl = "orig" /\ c.pc = "updateShares"
  /\ \E o \in Outcomes :
       /\ Fault(o)
       /\ shares' = IF o = "ok"
                      THEN UpdateSharesRow(<<c.buyer, c.issuer>>, c.existing.id,
                                           NewQuantity(c), NewAveragePrice(c))
                      ELSE shares
       /\ call' = [call EXCEPT ![p] =
            CASE o = "throw" -> Thrown(c)
              [] o = "err" -> Done(c, Failure("Failed to update shares record"))
              [] OTHER -> [c EXCEPT !.pc = "insertTransaction"]]
  /\ UNCHANGED <<balance, available, total, transactions, nextId, pre, calls, failed, maint, hist, profiles>>

\* UNIQUE(owner_id, tradeable_user_id): a second row for the key is an error
T_InsertShares(p) ==
  LET c == call[p]
      k == <<c.buyer, c.issuer>>
  IN
  /\ c.impl = "orig" /\ c.pc = "insertShares"
  /\ \E o \in IF shares[k].id = 0 THEN Outcomes ELSE {"err"} :
       /\ IF shares[k].id = 0 THEN Fault(o) ELSE budget' = budget
       /\ shares' = IF o = "ok"
                      THEN [shares EXCEPT ![k] = [id |-> nextId, quantity |-> c.quantity,
                                                  average_price |-> c.price]]
                      ELSE shares
       /\ nextId' = IF o = "ok" THEN nextId + 1 ELSE nextId
       /\ call' = [call EXCEPT ![p] =
            CASE o = "throw" -> Thrown(c)
              [] o = "err" -> Done(c, Failure("Failed to create shares record"))
              [] OTHER -> [c EXCEPT !.pc = "insertTransaction"]]
  /\ UNCHANGED <<balance, available, total, transactions, pre, calls, failed, maint, hist, profiles>>

T_InsertTransaction(p) ==
  LET c == call[p] IN
  /\ c.impl = "orig" /\ c.pc = "insertTransaction"
  /\ \E o \in Outcomes :
       /\ Fault(o)
       /\ transactions' = IF o = "ok" THEN transactions \cup {TransactionRow(c, nextId)}
                          ELSE transactions
       /\ nextId' = IF o = "ok" THEN nextId + 1 ELSE nextId
       /\ call' = [call EXCEPT ![p] =
            CASE o = "throw" -> Thrown(c)
              [] o = "err" -> Done(c, Failure("Failed to record transaction"))
              [] OTHER -> Done([c EXCEPT !.txId = nextId], Success(nextId))]
  /\ UNCHANGED <<balance, available, total, shares, pre, calls, failed, maint, hist, profiles>>

StepT(p) ==
  \/ T_ReadBalance(p)
  \/ T_ReadProfile(p)
  \/ T_WriteBalance(p)
  \/ T_WriteAvailable(p)
  \/ T_ReadShares(p)
  \/ T_DeleteShares(p)
  \/ T_UpdateShares(p)
  \/ T_InsertShares(p)
  \/ T_InsertTransaction(p)

\* ----------------------------------- executeTradeTransactionImproved steps
\* the compensating writes still to issue, then the failure to return
Rollback(c, steps, msg) == [c EXCEPT !.pc = "rollback", !.rb = steps, !.err = msg]

\* a compensating call has returned (its error, if any, is not looked at)
AfterRollback(c) ==
  IF Len(c.rb) = 1 THEN Done([c EXCEPT !.rb = <<>>], Failure(c.err))
  ELSE [c EXCEPT !.rb = Tail(c.rb)]

InvalidShareCalculation(c) ==
  NewAvailableShares(c) < 0 \/ NewAvailableShares(c) > c.totalRead

\* .single() on the shares row: no row is an error
CannotSell(c, row) == row.id = 0 \/ row.quantity < c.quantity

I_ReadBalance(p) ==
  LET c == call[p] IN
  /\ c.impl = "improved" /\ c.pc = "readBalance"
  /\ \E o \in Outcomes :
       /\ Fault(o)
       /\ call' = [call EXCEPT ![p] =
            CASE o = "throw" -> Thrown(c)
              [] o = "err" -> Done(c, Failure("Failed to fetch buyer account information"))
              [] o = "ok" /\ InsufficientFunds(c, balance[c.buyer]) ->
                   Done(c, Failure("Insufficient funds"))
              [] OTHER -> [c EXCEPT !.pc = "readProfile", !.balRead = balance[c.buyer]]]
  /\ UNCHANGED <<store, pre, calls, failed, maint, hist, profiles>>

I_ReadProfile(p) ==
  LET c == call[p] IN
  /\ c.impl = "improved" /\ c.pc = "readProfile"
  /\ \E o \in Outcomes :
       /\ Fault(o)
       /\ call' = [call EXCEPT ![p] =
            CASE o = "throw" -> Thrown(c)
              [] o = "err" -> Done(c, Failure("Failed to fetch trader information"))
              [] o = "ok" /\ InsufficientShares(c, available[c.issuer]) ->
                   Done(c, Failure("Insufficient shares available"))
              [] OTHER -> [c EXCEPT !.pc = IF c.side = "sell" THEN "checkShares"
                                             ELSE "insertTransaction",
                                    !.availRead = available[c.issuer],
                                    !.totalRead = total[c.issuer]]]
  /\ UNCHANGED <<store, pre, calls, failed, maint, hist, profiles>>

I_CheckShares(p) ==
  LET c == call[p] IN
  /\ c.impl = "improved" /\ c.pc = "checkShares"
  /\ \E o \in Outcomes :
       /\ Fault(o)
       /\ call' = [call EXCEPT ![p] =
            CASE o = "throw" -> Thrown(c)
              [] o = "err" -> Done(c, Failure("Cannot sell shares you do not own"))
              [] o = "ok" /\ CannotSell(c, shares[<<c.buyer, c.issuer>>]) ->
                   Done(c, Failure("Cannot sell shares you do not own"))
              [] OTHER -> [c EXCEPT !.pc = "insertTransaction"]]
  /\ UNCHANGED <<store, pre, calls, failed, maint, hist, profiles>>

I_InsertTransaction(p) ==
  LET c == call[p] IN
  /\ c.impl = "improved" /\ c.pc = "insertTransaction"
  /\ \E o \in Outcomes :
       /\ Fault(o)
       /\ transactions' = IF o = "ok" THEN transactions \cup {TransactionRow(c, nextId)}
                          ELSE transactions
       /\ nextId' = IF o = "ok" THEN nextId + 1 ELSE nextId
       /\ call' = [call EXCEPT ![p] =
            CASE o = "throw" -> Thrown(c)
              [] o = "err" -> Done(c, Failure("Failed to record transaction"))
              [] OTHER -> [c EXCEPT !.pc = "writeBalance", !.txId = nextId]]
  /\ UNCHANGED <<balance, available, total, shares, pre, calls, failed, maint, hist, profiles>>

I_WriteBalance(p) ==
  LET c == call[p] IN
  /\ c.impl = "improved" /\ c.pc = "writeBalance"
  /\ \E o \in Outcomes :
       /\ Fault(o)
       /\ balance' = IF o = "ok" THEN [balance EXCEPT ![c.buyer] = NewBalance(c)]
                     ELSE balance
       /\ call' = [call EXCEPT ![p] =
            CASE o = "throw" -> Thrown(c)
              [] o = "err" -> Rollback(c, <<"tx">>, "Failed to update account balance")
              [] o = "ok" /\ InvalidShareCalculation(c) ->
                   Rollback(c, <<"bal", "tx">>, "Invalid share calculation")
              [] OTHER -> [c EXCEPT !.pc = "writeAvailable"]]
  /\ UNCHANGED <<available, total, shares, transactions, nextId, pre, calls, failed, maint, hist, profiles>>

I_WriteAvailable(p) ==
  LET c == call[p] IN
  /\ c.impl = "improved" /\ c.pc = "writeAvailable"
  /\ \E o \in Outcomes :
       /\ Fault(o)
       /\ available' = IF o = "ok"
                         THEN [available EXCEPT ![c.issuer] = NewAvailableShares(c)]
                         ELSE available
       /\ total' = IF o = "ok" THEN TotalSharesAfterUpdate(c.issuer, NewAvailableShares(c)) ELSE total
       /\ call' = [call EXCEPT ![p] =
            CASE o = "throw" -> Thrown(c)
              [] o = "err" ->
                   Rollback(c, <<"bal", "tx">>, "Failed to update share availability")
              [] OTHER -> [c EXCEPT !.pc = "readShares"]]
  /\ UNCHANGED <<balance, shares, transactions, nextId, pre, calls, failed, maint, hist, profiles>>

I_ReadShares(p) ==
  LET c == call[p]
      read == [c EXCEPT !.existing = shares[<<c.buyer, c.issuer>>]]
  IN
  /\ c.impl = "improved" /\ c.pc = "readShares"
  /\ \E o \in Outcomes :
       /\ Fault(o)
       /\ call' = [call EXCEPT ![p] =
            CASE o = "throw" -> Thrown(c)
              [] o = "err" ->
                   Rollback(c, <<"bal", "avail", "tx">>, "Failed to check existing shares")
              [] o = "ok" /\ AfterReadShares(read) = "noShares" ->
                   Done(read, Success(c.txId))
              [] OTHER -> [read EXCEPT !.pc = AfterReadShares(read)]]
  /\ UNCHANGED <<store, pre, calls, failed, maint, hist, profiles>>

I_DeleteShares(p) ==
  LET c == call[p] IN
  /\ c.impl = "improved" /\ c.pc = "deleteShares"
  /\ \E o \in Outcomes :
       /\ Fault(o)
       /\ shares' = IF o = "ok" THEN DeleteSharesRow(<<c.buyer, c.issuer>>, c.existing.id)
                    ELSE shares
       /\ call' = [call EXCEPT ![p] =
            CASE o = "throw" -> Thrown(c)
              [] o = "err" ->
                   Rollback(c, <<"bal", "avail", "tx">>, "Failed to update shares record")
              [] OTHER -> Done(c, Success(c.txId))]
  /\ UNCHANGED <<balance, available, total, transactions, nextId, pre, calls, failed, maint, hist, profiles>>

I_UpdateShares(p) ==
  LET c == call[p] IN
  /\ c.impl = "improved" /\ c.pc = "updateShares"
  /\ \E o \in Outcomes :
       /\ Fault(o)
       /\ shares' = IF o = "ok"
                      THEN UpdateSharesRow(<<c.buyer, c.issuer>>, c.existing.id,
                                           NewQuantity(c), NewAveragePrice(c))
                      ELSE shares
       /\ call' = [call EXCEPT ![p] =
            CASE o = "throw" -> Thrown(c)
              [] o = "err" ->
                   Rollback(c, <<"bal", "avail", "tx">>, "Failed to update shares record")
              [] OTHER -> Done(c, Success(c.txId))]
  /\ UNCHANGED <<balance, available, total, transactions, nextId, pre, calls, failed, maint, hist, profiles>>

I_InsertShares(p) ==
  LET c == call[p]
      k == <<c.buyer, c.issuer>>
  IN
  /\ c.impl = "improved" /\ c.pc = "insertShares"
  /\ \E o \in IF shares[k].id = 0 THEN Outcomes ELSE {"err"} :
       /\ IF shares[k].id = 0 THEN Fault(o) ELSE budget' = budget
       /\ shares' = IF o = "ok"
                      THEN [shares EXCEPT ![k] = [id |-> nextId, quantity |-> c.quantity,
                                                  average_price |-> c.price]]
                      ELSE shares
       /\ nextId' = IF o = "ok" THEN nextId + 1 ELSE nextId
       /\ call' = [call EXCEPT ![p] =
            CASE o = "throw" -> Thrown(c)
              [] o = "err" ->
                   Rollback(c, <<"bal", "avail", "tx">>, "Failed to create shares record")
              [] OTHER -> Done(c, Success(c.txId))]
  /\ UNCHANGED <<balance, available, total, transactions, pre, calls, failed, maint, hist, profiles>>

I_RollbackBalance(p) ==
  LET c == call[p] IN
  /\ c.impl = "improved" /\ c.pc = "rollback" /\ Head(c.rb) = "bal"
  /\ \E o \in Outcomes :
       /\ Fault(o)
       /\ balance' = IF o = "ok" THEN [balance EXCEPT ![c.buyer] = c.balRead]
                     ELSE balance
       /\ call' = [call EXCEPT ![p] =
            LET d == [c EXCEPT !.rbFailed = c.rbFailed \/ o # "ok"] IN
            IF o = "throw" THEN Thrown(d) ELSE AfterRollback(d)]
  /\ UNCHANGED <<available, total, shares, transactions, nextId, pre, calls, failed, maint, hist, profiles>>

I_RollbackAvailable(p) ==
  LET c == call[p] IN
  /\ c.impl = "improved" /\ c.pc = "rollback" /\ Head(c.rb) = "avail"
  /\ \E o \in Outcomes :
       /\ Fault(o)
       /\ available' = IF o = "ok" THEN [available EXCEPT ![c.issuer] = c.availRead]
                       ELSE available
       /\ total' = IF o = "ok" THEN TotalSharesAfterUpdate(c.issuer, c.availRead) ELSE total
       /\ call' = [call EXCEPT ![p] =
            LET d == [c EXCEPT !.rbFailed = c.rbFailed \/ o # "ok"] IN
            IF o = "throw" THEN Thrown(d) ELSE AfterRollback(d)]
  /\ UNCHANGED <<balance, shares, transactions, nextId, pre, calls, failed, maint, hist, profiles>>

I_RollbackTransaction(p) ==
  LET c == call[p] IN
  /\ c.impl = "improved" /\ c.pc = "rollback" /\ Head(c.rb) = "tx"
  /\ \E o \in Outcomes :
       /\ Fault(o)
       /\ transactions' = IF o = "ok" THEN DeleteTransactionRow(c.txId) ELSE transactions
       /\ call' = [call EXCEPT ![p] =
            LET d == [c EXCEPT !.rbFailed = c.rbFailed \/ o # "ok"] IN
            IF o = "throw" THEN Thrown(d) ELSE AfterRollback(d)]
  /\ UNCHANGED <<balance, available, total, shares, nextId, pre, calls, failed, maint, hist, profiles>>

StepI(p) ==
  \/ I_ReadBalance(p)
  \/ I_ReadProfile(p)
  \/ I_CheckShares(p)
  \/ I_InsertTransaction(p)
  \/ I_WriteBalance(p)
  \/ I_WriteAvailable(p)
  \/ I_ReadShares(p)
  \/ I_DeleteShares(p)
  \/ I_UpdateShares(p)
  \/ I_InsertShares(p)
  \/ I_RollbackBalance(p)
  \/ I_RollbackAvailable(p)
  \/ I_RollbackTransaction(p)

\* ------------------------------------------------------------------ specs
\* the store after sign-up: nothing traded yet
InitStore ==
  /\ balance = [u \in Users |-> InitBalance]
  /\ available = [i \in Issuers |-> InitShares]
  /\ total = [i \in Issuers |-> InitShares]
  /\ shares = [k \in Users \X Issuers |-> NoShares]
  /\ transactions = {}
  /\ nextId = 1
  /\ call = [p \in Procs |-> Idle]
  /\ pre = [p \in Procs |-> NoSnapshot]
  /\ calls = 0
  /\ failed = FALSE
  /\ maint = IdleMaint
  /\ profiles = [i \in Issuers |-> TradeableProfile]
  /\ hist = NoHist

Init == InitStore /\ budget = MaxFaults

\* the same store, when no store call fails
InitReliable == InitStore /\ budget = 0

\* executeTradeTransaction, one call at a time, against one issuer
NextT ==
  \E p \in SeqProcs :
    \/ Start(p, "orig", Users, {"i1"}, Quantities, Prices, MaxCalls)
    \/ StepT(p)
    \/ Return(p)

SpecT == Init /\ [][NextT]_vars

\* executeTradeTransactionImproved, one call at a time, against one issuer
NextI ==
  \E p \in SeqProcs :
    \/ Start(p, "improved", Users, {"i1"}, Quantities, Prices, MaxCalls)
    \/ StepI(p)
    \/ Return(p)

SpecI == Init /\ [][NextI]_vars

\* the store after u1 has bought one share of i1 at price 1
HoldingStore ==
  /\ balance = [u \in Users |-> IF u = "u1" THEN InitBalance - 1 ELSE InitBalance]
  /\ available = [i \in Issuers |-> IF i = "i1" THEN InitShares - 1 ELSE InitShares]
  /\ total = [i \in Issuers |-> InitShares]
  /\ shares = [k \in Users \X Issuers |->
                IF k = <<"u1", "i1">> THEN [id |-> 1, quantity |-> 1, average_price |-> 1]
                ELSE NoShares]
  /\ transactions =
       {[id |-> 2, buyer_id |-> "u1", seller_id |-> "null", tradeable_user_id |-> "i1",
         transaction_type |-> "buy", quantity |-> 1, price_per_share |-> 1,
         total_amount |-> 1]}
  /\ nextId = 3
  /\ call = [p \in Procs |-> Idle]
  /\ pre = [p \in Procs |-> NoSnapshot]
  /\ calls = 0
  /\ failed = FALSE
  /\ maint = IdleMaint
  /\ profiles = [i \in Issuers |-> TradeableProfile]
  /\ hist = NoHist

\* that store, when no store call fails
InitHolding == HoldingStore /\ budget = 0

\* executeTradeTransaction, two calls at a time, against one issuer
NextTC ==
  \E p \in Procs :
    \/ Start(p, "orig", Users, {"i1"}, Quantities, Prices, Cardinality(Procs))
    \/ StepT(p)
    \/ Return(p)

SpecTC == InitHolding /\ [][NextTC]_vars

\* both entry points, one call at a time, orders of any quantity and price
NextAny ==
  \E p \in SeqProcs :
    \/ Start(p, "orig", Users, {"i1"}, AnyQuantities, AnyPrices, MaxCalls)
    \/ Start(p, "improved", Users, {"i1"}, AnyQuantities, AnyPrices, MaxCalls)
    \/ StepT(p)
    \/ StepI(p)
    \/ Return(p)

SpecAny == Init /\ [][NextAny]_vars

\* settlement calls by one buyer at one price, audits and repairs, one
\* operation at a time
NextM ==
  \/ /\ maint.pc = "idle"
     /\ \E p \in SeqProcs :
          \/ Start(p, "orig", {"u1"}, {"i1"}, Quantities, {1}, MaxCalls)
          \/ StepT(p)
          \/ Return(p)
  \/ /\ \A p \in Procs : call[p].pc = "idle"
     /\ StepM

SpecM == Init /\ [][NextM]_vars

\* executeTradeTransactionImproved, one call at a time, when a store call of
\* a call and a compensating call after it may both fail
InitCompensation == InitStore /\ budget = MaxFaults + 1

SpecI2 == InitCompensation /\ [][NextI]_vars

\* the store after a settled buy, when store calls may fail
InitHoldingFaulty == HoldingStore /\ budget = MaxFaults

\* executeTradeTransactionImproved, two calls at a time, against one issuer
NextIC ==
  \E p \in Procs :
    \/ Start(p, "improved", Users, {"i1"}, Quantities, Prices, Cardinality(Procs))
    \/ StepI(p)
    \/ Return(p)

SpecIC == InitHoldingFaulty /\ [][NextIC]_vars

\* one executeTradeTransaction call while fixShareCountDiscrepancies runs
NextMC ==
  \/ \E p \in SeqProcs :
       \/ Start(p, "orig", Users, {"i1"}, Quantities, Prices, 1)
       \/ StepT(p)
       \/ Return(p)
  \/ F_Start \/ F_ReadProfiles \/ F_ReadTransactions \/ F_Update
  \/ M_Return

SpecMC == InitHolding /\ [][NextMC]_vars

\* the store after u1 bought two shares of i1 at price 1
HoldingTwoStore ==
  /\ balance = [u \in Users |-> IF u = "u1" THEN InitBalance - 2 ELSE InitBalance]
  /\ available = [i \in Issuers |-> IF i = "i1" THEN InitShares - 2 ELSE InitShares]
  /\ total = [i \in Issuers |-> InitShares]
  /\ shares = [k \in Users \X Issuers |->
                IF k = <<"u1", "i1">> THEN [id |-> 1, quantity |-> 2, average_price |-> 1]
                ELSE NoShares]
  /\ transactions =
       {[id |-> 2, buyer_id |-> "u1", seller_id |-> "null", tradeable_user_id |-> "i1",
         transaction_type |-> "buy", quantity |-> 2, price_per_share |-> 1,
         total_amount |-> 2]}
  /\ nextId = 3
  /\ call = [p \in Procs |-> Idle]
  /\ pre = [p \in Procs |-> NoSnapshot]
  /\ calls = 0
  /\ failed = FALSE
  /\ maint = IdleMaint
  /\ profiles = [i \in Issuers |-> TradeableProfile]
  /\ hist = NoHist

InitHoldingTwo == HoldingTwoStore /\ budget = MaxFaults

\* executeTradeTransactionImproved, two calls at a time, by the holder of two
\* shares and another user
SpecIS == InitHoldingTwo /\ [][NextIC]_vars

\* executeTradeTransactionImproved, one call at a time, from the store after
\* a settled buy
SpecIH == InitHoldingFaulty /\ [][NextI]_vars

\* calls of either entry point by one buyer at one price and
\* fixShareCountDiscrepancies runs, one operation at a time
NextL ==
  \/ /\ maint.pc = "idle"
     /\ \E p \in SeqProcs :
          \/ Start(p, "orig", {"u1"}, {"i1"}, Quantities, {1}, MaxCalls)
          \/ Start(p, "improved", {"u1"}, {"i1"}, Quantities, {1}, MaxCalls)
          \/ StepT(p)
          \/ StepI(p)
          \/ Return(p)
  \/ /\ \A p \in Procs : call[p].pc = "idle"
     /\ \/ F_Start \/ F_ReadProfiles \/ F_ReadTransactions \/ F_Update
        \/ M_Return

SpecL == Init /\ [][NextL]_vars

\* both entry points, one call at a time, from the store after a settled
\* buy, every order valid against the store it meets
NextBH ==
  \E p \in SeqProcs :
    \/ StartValid(p, "orig", Users, {"i1"}, Quantities, Prices, MaxCalls)
    \/ StartValid(p, "improved", Users, {"i1"}, Quantities, Prices, MaxCalls)
    \/ StepT(p)
    \/ StepI(p)
    \/ Return(p)

SpecBH == InitHoldingFaulty /\ [][NextBH]_vars

\* updates of profiles rows by any authenticated user, through the API
NextP == \E r \in Authenticated, i \in Issuers : P_Update(r, i)

SpecP == Init /\ [][NextP]_vars

\* both entry points, one call at a time, one buyer, valid orders
NextB ==
  \E p \in SeqProcs :
    \/ Start(p, "orig", {"u1"}, {"i1"}, Quantities, Prices, MaxCalls)
    \/ Start(p, "improved", {"u1"}, {"i1"}, Quantities, Prices, MaxCalls)
    \/ StepT(p)
    \/ StepI(p)
    \/ Return(p)

SpecB == Init /\ [][NextB]_vars

\* ----------------------------------------------------------------- claims
Key(c) == <<c.buyer, c.issuer>>

\* no settlement call is between two of its store calls
Quiescent == \A p \in Procs : call[p].pc \in {"idle", "done"}

\* every call that has returned so far returned success
AllSucceeded ==
  /\ ~failed
  /\ \A p \in Procs : call[p].pc = "done" => call[p].result.success

\* the call of p left the buyer's balance, the issuer's counter, the shares rows
\* and the transactions rows as they were when it began
Untouched(p) ==
  /\ balance = pre[p].balance
  /\ available = pre[p].available
  /\ shares = pre[p].shares
  /\ transactions = pre[p].transactions

\* no store call has failed so far
NoFault == budget = MaxFaults

ValidationReasons ==
  {"Insufficient funds", "Insufficient shares available",
   "Cannot sell shares you do not own"}

\* C1: after every call of a sequence of executeTradeTransaction calls that all
\* returned success, available_shares plus the quantities of all shares rows
\* of the issuer equals total_shares.
C1_Conservation ==
  (Quiescent /\ AllSucceeded) => available["i1"] + SumHeld(Users, "i1") = total["i1"]

\* C2: whenever no call is in progress, available_shares equals total_shares
\* minus the quantities of the issuer's buy rows plus those of its sell rows,
\* also when store calls fail.
C2_LogDerivedSupply == Quiescent => Discrepancy("i1") = 0

\* C3: a sell returns success only if, when it was called, a shares row of the
\* seller for the issuer existed with at least the requested quantity (stated
\* for the runs in which no store call failed).
C3_NoOversell ==
  \A p \in Procs :
    (NoFault /\ call[p].pc = "done" /\ call[p].side = "sell" /\ call[p].result.success)
      => /\ pre[p].shares[Key(call[p])].id # 0
         /\ pre[p].shares[Key(call[p])].quantity >= call[p].quantity

\* C4: with positive quantities and prices and balances that start at 0 or
\* more, no interleaving of concurrent executeTradeTransaction calls brings a
\* balance below 0.
C4_NonNegativeBalance == \A u \in Users : balance[u] >= 0

\* C4 witness: a buy and a sell of the same buyer ran at the same time, each
\* read the balance before the other wrote it, and both have settled.
C4_Witness ==
  \E p, q \in Procs :
    /\ call[p].pc = "done" /\ call[q].pc = "done"
    /\ call[p].buyer = call[q].buyer
    /\ call[p].side = "buy" /\ call[q].side = "sell"
    /\ call[p].result.success /\ call[q].result.success
    /\ call[p].balRead = call[q].balRead
    /\ call[p].balRead = TotalAmount(call[p])
    /\ balance[call[p].buyer] = 0

\* two buys of the same issuer that began on the same store, each covered by
\* the funds of its buyer and by the supply, the two together not covered by
\* the supply
CompetingBuys(p, q) ==
  /\ p # q
  /\ call[p].pc = "done" /\ call[q].pc = "done"
  /\ call[p].side = "buy" /\ call[q].side = "buy"
  /\ call[p].issuer = call[q].issuer
  /\ pre[p] = pre[q]
  /\ call[p].buyer # call[q].buyer
  /\ pre[p].balance[call[p].buyer] >= TotalAmount(call[p])
  /\ pre[q].balance[call[q].buyer] >= TotalAmount(call[q])
  /\ pre[p].available[call[p].issuer] >= call[p].quantity
  /\ pre[p].available[call[p].issuer] >= call[q].quantity
  /\ pre[p].available[call[p].issuer] < call[p].quantity + call[q].quantity

\* C5: of two concurrent buys for which the supply covers one but not both,
\* exactly one returns success, in every interleaving.
C5_ExactlyOneSettles ==
  \A p, q \in Procs :
    CompetingBuys(p, q) => (call[p].result.success # call[q].result.success)

\* C6: 0 <= available_shares <= total_shares in every state reachable by
\* executeTradeTransaction calls.
C6_SupplyBounds ==
  \A i \in Issuers : 0 <= available[i] /\ available[i] <= total[i]

\* C7: an executeTradeTransactionImproved call that returns success: false
\* leaves the balance, available_shares, the shares row and the transactions
\* rows as they were before the call.
C7_AllOrNothing ==
  \A p \in Procs :
    (call[p].pc = "done" /\ call[p].impl = "improved" /\ ~call[p].result.success)
      => Untouched(p)

\* C8: when the write of available_shares fails after the transaction row was
\* appended, the row is gone when the call returns and the audit of the issuer
\* finds no discrepancy.
C8_RollbackScenario ==
  \A p \in Procs :
    (/\ call[p].pc = "done" /\ call[p].impl = "improved"
     /\ call[p].result.error = "Failed to update share availability")
      => /\ \A t \in transactions : t.id # call[p].txId
         /\ Discrepancy(call[p].issuer) = 0

\* C9: an executeTradeTransaction call that fails with a validation reason
\* leaves balance, available_shares, shares rows and transactions rows
\* unchanged.
C9_ValidationNoSideEffects ==
  \A p \in Procs :
    (/\ call[p].pc = "done" /\ call[p].impl = "orig"
     /\ call[p].result.error \in ValidationReasons)
      => Untouched(p)

\* C10: in both entry points a call with quantity <= 0 or pricePerShare <= 0
\* returns a failure and changes no balance, counter, shares row or
\* transactions row (stated for the runs in which no store call failed).
C10_InvalidOrdersRejected ==
  \A p \in Procs :
    (NoFault /\ call[p].pc = "done" /\ (call[p].quantity <= 0 \/ call[p].price <= 0))
      => (~call[p].result.success /\ Untouched(p))

\* +1 for a buy, -1 for a sell
Sign(c) == IF c.side = "buy" THEN 1 ELSE -1

\* C11: when executeTradeTransaction returns success with no other call in
\* progress, a buy of q at p has lowered the balance by q*p and available_shares
\* by q and raised the position quantity (0 if absent) by q; a sell has done
\* the opposite.
C11_SettledEffect ==
  \A p \in Procs :
    LET c == call[p] IN
    (c.pc = "done" /\ c.impl = "orig" /\ c.result.success)
      => /\ balance[c.buyer] = pre[p].balance[c.buyer] - Sign(c) * c.quantity * c.price
         /\ available[c.issuer] = pre[p].available[c.issuer] - Sign(c) * c.quantity
         /\ shares[Key(c)].quantity = pre[p].shares[Key(c)].quantity + Sign(c) * c.quantity

\* C13: after settled orders every stored shares row has quantity > 0; a sell
\* that brings the quantity to exactly zero removes the row; a buy that finds
\* no row creates one with that buy's price as its average_price.
C13_ZeroCloseOut ==
  /\ (Quiescent /\ AllSucceeded)
       => \A k \in Users \X Issuers : shares[k].id # 0 => shares[k].quantity > 0
  /\ \A p \in Procs :
       LET c == call[p] IN
       (c.pc = "done" /\ c.result.success)
         => /\ (c.side = "sell" /\ pre[p].shares[Key(c)].id # 0
                  /\ pre[p].shares[Key(c)].quantity = c.quantity)
                 => shares[Key(c)].id = 0
            /\ (c.side = "buy" /\ pre[p].shares[Key(c)].id = 0)
                 => /\ shares[Key(c)].quantity = c.quantity
                    /\ shares[Key(c)].average_price = c.price

\* the transactions rows that were not there when the call of p began
Appended(p) == transactions \ pre[p].transactions

\* C14: an executeTradeTransaction call that returns success has appended
\* exactly one transactions row, with the call's buyer, issuer, side, quantity,
\* price and total_amount = quantity * price, and returns that row's id; a call
\* that does not return success has appended none.
C14_OneRowPerSettledOrder ==
  \A p \in Procs :
    LET c == call[p] IN
    (c.pc = "done" /\ c.impl = "orig")
      => IF c.result.success
           THEN /\ Cardinality(Appended(p)) = 1
                /\ \A t \in Appended(p) :
                     /\ t.id = c.result.transactionId
                     /\ t.buyer_id = c.buyer
                     /\ t.tradeable_user_id = c.issuer
                     /\ t.transaction_type = c.side
                     /\ t.quantity = c.quantity
                     /\ t.price_per_share = c.price
                     /\ t.total_amount = c.quantity * c.price
                /\ \A t \in pre[p].transactions : t.id # c.result.transactionId
                /\ pre[p].transactions \subseteq transactions
           ELSE transactions = pre[p].transactions

\* C14 witness: a second order has settled, at a price other than 1 per share
\* and for more than one share, after a first row was appended.
C14_Witness ==
  \E p \in Procs :
    /\ call[p].pc = "done" /\ call[p].impl = "orig" /\ call[p].result.success
    /\ pre[p].transactions # {}
    /\ call[p].quantity > 1 /\ call[p].price > 1
    /\ Cardinality(transactions) = 2

Abs(n) == IF n < 0 THEN -n ELSE n

\* cost of the position of call c's buyer before the call plus the cost of the order
CostAfterBuy(p) ==
  LET c == call[p] old == pre[p].shares[Key(c)] IN
  old.quantity * old.average_price + c.quantity * c.price

\* C12 (as stated): a settled buy on an existing position (q1, avg1) stores
\* quantity q1 + q2 and average_price exactly (q1*avg1 + q2*p2) / (q1 + q2); a
\* buy with no position stores (q2, p2); a sell that leaves a positive
\* quantity keeps average_price.
C12_CostBasisExact ==
  \A p \in Procs :
    LET c == call[p] old == pre[p].shares[Key(c)] new == shares[Key(c)] IN
    (c.pc = "done" /\ c.result.success)
      => /\ (c.side = "buy" /\ old.id # 0)
              => /\ new.quantity = old.quantity + c.quantity
                 /\ new.average_price * (old.quantity + c.quantity) = CostAfterBuy(p)
         /\ (c.side = "buy" /\ old.id = 0)
              => new.quantity = c.quantity /\ new.average_price = c.price
         /\ (c.side = "sell" /\ old.quantity - c.quantity > 0)
              => new.average_price = old.average_price

\* C12 (amended): as above, with the stored average_price of a buy on an
\* existing position equal to the quotient rounded to the cent, that is,
\* within half a cent of (q1*avg1 + q2*p2) / (q1 + q2).
C12_CostBasisRounded ==
  \A p \in Procs :
    LET c == call[p] old == pre[p].shares[Key(c)] new == shares[Key(c)] IN
    (c.pc = "done" /\ c.result.success)
      => /\ (c.side = "buy" /\ old.id # 0)
              => /\ new.quantity = old.quantity + c.quantity
                 /\ 2 * Abs(new.average_price * (old.quantity + c.quantity) - CostAfterBuy(p))
                      <= old.quantity + c.quantity
         /\ (c.side = "buy" /\ old.id = 0)
              => new.quantity = c.quantity /\ new.average_price = c.price
         /\ (c.side = "sell" /\ old.quantity - c.quantity > 0)
              => new.average_price = old.average_price

\* C12 witness: executeTradeTransactionImproved has settled a buy on a position
\* created by executeTradeTransaction, and the quotient is not a whole number
\* of cents.
C12_Witness ==
  \E p \in Procs :
    LET c == call[p] old == pre[p].shares[Key(c)] IN
    /\ c.pc = "done" /\ c.result.success /\ c.impl = "improved"
    /\ c.side = "buy" /\ old.id # 0
    /\ CostAfterBuy(p) % (old.quantity + c.quantity) # 0
    /\ old.id = 1

AuditKinds == {"auditAll", "auditUser"}

\* the transactions rows of issuer i of one side, as now stored
RowsOf(i, side) ==
  {t \in transactions : t.tradeable_user_id = i /\ t.transaction_type = side}

\* C15: the audit (debugAllTradeableUsers, debugUserTradingData) computes, per
\* tradeable issuer, expected = total_shares - (sum of buy quantities - sum of
\* sell quantities) over the issuer's transactions, and reports the issuer
\* consistent exactly when the stored available_shares equals that value.
C15_AuditComputation ==
  \A i \in Issuers :
    LET r == maint.report[i] IN
    (maint.kind \in AuditKinds /\ r.made)
      => /\ r.expected = total[i] - (SumQuantity(RowsOf(i, "buy")) - SumQuantity(RowsOf(i, "sell")))
         /\ r.actual = available[i]
         /\ r.discrepancy = r.actual - r.expected
         /\ r.consistent <=> (available[i] = r.expected)

\* C15 witness: debugAllTradeableUsers has returned having reported i1
\* inconsistent, with a sell among i1's transactions.
C15_Witness ==
  /\ maint.kind = "auditAll" /\ maint.pc = "done"
  /\ maint.report["i1"].made /\ ~maint.report["i1"].consistent
  /\ RowsOf("i1", "sell") # {}

Reported(r) == <<r.expected, r.actual, r.discrepancy, r.consistent>>

\* C17: no step of an audit changes the store, and an audit's report for an
\* issuer equals the report of the audit before it when no settlement or
\* repair came in between.
C17_AuditReadOnly ==
  [][(maint.kind \in AuditKinds /\ maint' # maint)
       => /\ store' = store
          /\ \A i \in Issuers :
               (maint'.report[i].made /\ hist'.prev[i].made /\ hist'.lastFix = "none")
                 => Reported(maint'.report[i]) = Reported(hist'.prev[i])]_vars

\* C17 witness: a second audit in a row has reported a discrepancy for i1.
C17_Witness ==
  /\ maint.kind \in AuditKinds /\ maint.pc = "done"
  /\ maint.report["i1"].made /\ hist.prev["i1"].made
  /\ maint.report["i1"].discrepancy # 0

C19_PartialFailureSurfaced ==
  \A p \in Procs :
    LET c == call[p] IN
    (c.pc = "done" /\ c.impl = "improved" /\ c.rbFailed)
      => /\ ~c.result.success
         /\ c.result.error # c.err
         /\ c.result.error # Unexpected.error
         /\ c.result.transactionId = c.txId

\* two executeTradeTransactionImproved buys on one issuer, both begun before
\* either wrote the supply counter, have both returned
ConcurrentBuys(p, q) ==
  /\ p # q
  /\ call[p].pc = "done" /\ call[q].pc = "done"
  /\ call[p].impl = "improved" /\ call[q].impl = "improved"
  /\ call[p].side = "buy" /\ call[q].side = "buy"
  /\ call[p].issuer = call[q].issuer
  /\ pre[p].available = pre[q].available

\* C20: when two concurrent executeTradeTransactionImproved buys of q1 and q2
\* shares of one issuer both return success, available_shares ends at its
\* initial value minus (q1 + q2).
C20_NoLostSupplyUpdate ==
  \A p, q \in Procs :
    (ConcurrentBuys(p, q) /\ call[p].result.success /\ call[q].result.success)
      => available[call[p].issuer]
           = pre[p].available[call[p].issuer] - (call[p].quantity + call[q].quantity)

\* a buy (call of p) and a sell (call of q) by one user, both begun before
\* either wrote the balance, have both returned
ConcurrentBuyAndSell(p, q) ==
  /\ p # q
  /\ call[p].pc = "done" /\ call[q].pc = "done"
  /\ call[p].impl = "orig" /\ call[q].impl = "orig"
  /\ call[p].side = "buy" /\ call[q].side = "sell"
  /\ call[p].buyer = call[q].buyer
  /\ pre[p].balance = pre[q].balance

\* C21: when a concurrent buy and sell by one user through
\* executeTradeTransaction both return success, the user's balance ends at its
\* initial value minus the buy's total amount plus the sell's total amount.
C21_NoLostCashUpdate ==
  \A p, q \in Procs :
    (ConcurrentBuyAndSell(p, q) /\ call[p].result.success /\ call[q].result.success)
      => balance[call[p].buyer]
           = pre[p].balance[call[p].buyer] - call[p].quantity * call[p].price
               + call[q].quantity * call[q].price

\* C22: once one executeTradeTransaction call that returned success and the
\* fixShareCountDiscrepancies runs interleaved with it have finished, the
\* issuer's available_shares equals total_shares minus the net issued
\* quantity of its transactions rows (no store call fails here).
C22_RepairDoesNotRace ==
  \A p \in Procs :
    (call[p].pc = "done" /\ call[p].result.success /\ maint.pc \in {"idle", "done"})
      => available[call[p].issuer]
           = total[call[p].issuer]
               - (SumQuantity(RowsOf(call[p].issuer, "buy"))
                    - SumQuantity(RowsOf(call[p].issuer, "sell")))

\* C23: a settlement call whose balance or available_shares write finds the
\* record changed since the call read it does not apply the write: it starts
\* again from the first step or returns.
C23_StaleWriteRetries ==
  [][\A p \in Procs :
       LET c == call[p] IN
       /\ (c.pc = "writeBalance" /\ balance[c.buyer] # c.balRead /\ call'[p] # c)
            => (balance' = balance /\ call'[p].pc \in {"readBalance", "done"})
       /\ (c.pc = "writeAvailable" /\ available[c.issuer] # c.availRead /\ call'[p] # c)
            => (available' = available /\ call'[p].pc \in {"readBalance", "done"})]_vars

\* C24: every result returned by executeTradeTransaction and
\* executeTradeTransactionImproved has either success = true with a
\* transactionId and no error, or success = false with a non-empty error and
\* no transactionId.
C24_OutcomeShape ==
  \A p \in Procs :
    LET r == call[p].result IN
    call[p].pc = "done"
      => IF r.success THEN r.transactionId # 0 /\ r.error = ""
         ELSE r.error # "" /\ r.transactionId = 0

\* C24 witness: executeTradeTransactionImproved has returned a failure after
\* it had appended its transactions row, following a call that succeeded.
C24_Witness ==
  \E p \in Procs :
    /\ call[p].pc = "done" /\ call[p].impl = "improved"
    /\ ~call[p].result.success /\ call[p].txId # 0
    /\ pre[p].transactions # {}

\* C25: in a settlement call of either implementation, the transactions row
\* is appended before the first write to the balance, available_shares or the
\* shares row: while the call has appended no row, those are as the call found
\* them.
C25_LogFirst ==
  \A p \in Procs :
    LET c == call[p] IN
    (c.pc # "idle" /\ c.txId = 0)
      => /\ balance = pre[p].balance
         /\ available = pre[p].available
         /\ shares = pre[p].shares

\* C26: an executeTradeTransactionImproved sell that reads, at the ownership
\* step, a position smaller than the quantity it sells does not return
\* success and leaves no transactions row.
C26_SellRaceRejected ==
  \A p \in Procs :
    LET c == call[p] IN
    (c.pc = "done" /\ c.impl = "improved" /\ c.side = "sell"
       /\ c.existing.id # 0 /\ c.existing.quantity < c.quantity)
      => /\ ~c.result.success
         /\ \A t \in transactions : t.id # c.txId

\* C27: an executeTradeTransactionImproved call that has appended its
\* transactions row ends either with success and the balance and
\* available_shares updated, or with that row deleted and the balance and
\* available_shares as before the call, also when a store call throws after
\* the append.
C27_CompletionOrRollback ==
  \A p \in Procs :
    LET c == call[p] IN
    (c.pc = "done" /\ c.impl = "improved" /\ c.txId # 0)
      => \/ /\ c.result.success
            /\ balance[c.buyer] = pre[p].balance[c.buyer] - Sign(c) * c.quantity * c.price
            /\ available[c.issuer] = pre[p].available[c.issuer] - Sign(c) * c.quantity
         \/ /\ \A t \in transactions : t.id # c.txId
            /\ balance = pre[p].balance
            /\ available = pre[p].available

\* C28: when executeTradeTransactionImproved computes a new available_shares
\* below 0 or above total_shares, the counter is not written, the balance is
\* restored, the appended transactions row is deleted and the call returns a
\* failure (stated for the runs in which no store call failed).
C28_SupplyPostCondition ==
  \A p \in Procs :
    LET c == call[p] IN
    (c.pc = "done" /\ c.impl = "improved" /\ c.err = "Invalid share calculation" /\ NoFault)
      => /\ ~c.result.success
         /\ available = pre[p].available
         /\ balance = pre[p].balance
         /\ \A t \in transactions : t.id # c.txId

\* the messages of the failures of the ownership step
OwnershipFailures ==
  {"Failed to check existing shares", "Failed to update shares record",
   "Failed to create shares record"}

\* C29: when the ownership step of executeTradeTransactionImproved fails, the
\* compensating writes are issued in the order available_shares, balance,
\* transactions row.
C29_ReverseOrderCompensation ==
  \A p \in Procs :
    LET c == call[p] IN
    (c.pc = "rollback" /\ c.err \in OwnershipFailures /\ Len(c.rb) = 3)
      => c.rb = <<"avail", "bal", "tx">>

\* two executeTradeTransactionImproved calls, both begun before either wrote,
\* have returned: the call of p with success, the call of q with a failure
\* after rolling back
SettledAndRolledBack(p, q) ==
  /\ p # q
  /\ call[p].pc = "done" /\ call[q].pc = "done"
  /\ call[p].impl = "improved" /\ call[q].impl = "improved"
  /\ pre[p].balance = pre[q].balance /\ pre[p].available = pre[q].available
  /\ call[p].result.success
  /\ ~call[q].result.success /\ call[q].err # ""
  /\ NoFault

\* C30: when of two concurrent executeTradeTransactionImproved calls one
\* returns success and the other fails and rolls back, the balance and
\* available_shares end with exactly the effect of the successful call
\* (stated for the runs in which no store call failed).
C30_RollbackKeepsOtherOrder ==
  \A p, q \in Procs :
    LET c == call[p] IN
    SettledAndRolledBack(p, q)
      => /\ balance = [pre[p].balance EXCEPT
                         ![c.buyer] = @ - Sign(c) * c.quantity * c.price]
         /\ available = [pre[p].available EXCEPT
                           ![c.issuer] = @ - Sign(c) * c.quantity]

\* C31: the log is append-only. In every step of a settlement call or of a
\* repair run each transaction record either stays as it is, or is removed
\* (not rewritten) by the executeTradeTransactionImproved call that appended
\* it, while that call is compensating and so goes on to return a failure;
\* the records that were there when a call started are all still there.
C31_AppendOnlyLog ==
  [][/\ \A t \in transactions :
          \/ t \in transactions'
          \/ /\ \A s \in transactions' : s.id # t.id
             /\ \E p \in Procs :
                  /\ call[p].impl = "improved" /\ call[p].pc = "rollback"
                  /\ call[p].txId = t.id
                  /\ call'[p].pc \in {"rollback", "done"}
                  /\ ~call'[p].result.success
     /\ \A p \in Procs :
          call'[p].pc # "idle" => pre'[p].transactions \subseteq transactions']_vars

\* a call of executeTradeTransactionImproved appended its record, issued the
\* compensating delete and returned the failure, with an older record in the
\* log
C31_Witness ==
  \E p \in Procs :
    LET c == call[p] IN
    /\ c.impl = "improved" /\ c.pc = "done" /\ c.txId # 0
    /\ c.err # "" /\ c.result = Failure(c.err) /\ ~c.rbFailed
    /\ \E t \in transactions : t.id < c.txId

\* C33: total_shares is immutable: no step of executeTradeTransaction, of
\* executeTradeTransactionImproved (compensation included) or of
\* fixShareCountDiscrepancies changes the total_shares of any issuer.
C33_TotalSharesImmutable == [][\A i \in Issuers : total'[i] = total[i]]_vars

\* a repair run has rewritten the available_shares of an issuer that a
\* settlement call had left off its expected value
C33_Witness ==
  /\ maint.kind = "fix" /\ hist.writes > 0
  /\ \E i \in Issuers :
       /\ available[i] # hist.start.available[i]
       /\ available[i] = ExpectedAvailable(i)
       /\ total[i] = InitShares

\* C34: the frame of executeTradeTransaction. A step of a call for buyer B
\* and issuer I changes no balance other than B's, no available_shares other
\* than I's, no shares record other than that of (B, I), and no transaction
\* record that exists.
C34_SettlementFrame ==
  [][\A p \in Procs :
       LET c == call[p] IN
       (c.impl = "orig" /\ call'[p] # c) =>
         /\ \A u \in Users : u # c.buyer => balance'[u] = balance[u]
         /\ \A i \in Issuers : i # c.issuer => available'[i] = available[i]
         /\ \A k \in Users \X Issuers :
              k # <<c.buyer, c.issuer>> => shares'[k] = shares[k]
         /\ \A t \in transactions : t \in transactions']_vars

\* a call has settled a buy that added to the buyer's position while another
\* user holds a position in the same issuer and has a transaction record
C34_Witness ==
  \E p \in Procs :
    LET c == call[p] IN
    /\ c.impl = "orig" /\ c.pc = "done" /\ c.result.success
    /\ c.existing.id # 0
    /\ \E u \in Users \ {c.buyer} :
         /\ shares[<<u, c.issuer>>].id # 0
         /\ \E t \in transactions : t.buyer_id = u

\* C36: a store call that throws inside executeTradeTransaction or
\* executeTradeTransactionImproved does not end the call with an exception:
\* the call returns, with success = false and the message 'An unexpected
\* error occurred during trade execution'.
C36_ExceptionsBecomeFailures ==
  \A p \in Procs :
    LET c == call[p] IN
    c.threw =>
      /\ c.pc = "done"
      /\ c.result.success = FALSE
      /\ c.result.error = "An unexpected error occurred during trade execution"

\* a call of executeTradeTransactionImproved has returned after a store call
\* threw when its transaction record was already written
C36_Witness ==
  \E p \in Procs :
    /\ call[p].impl = "improved" /\ call[p].threw /\ call[p].pc = "done"
    /\ call[p].txId # 0

\* C35: the frame of fixShareCountDiscrepancies. A step of a repair run
\* changes nothing but available_shares, and only of an issuer whose stored
\* counter differs from total_shares minus the net issued quantity, which it
\* sets to that value; when the transaction records of an issuer cannot be
\* read, no counter changes and, if issuers remain, the loop goes on to them.
C35_RepairFrameAlways ==
  [][(maint.kind = "fix" /\ maint' # maint) =>
       /\ balance' = balance /\ total' = total
       /\ shares' = shares /\ transactions' = transactions
       /\ \A i \in Issuers :
            available'[i] # available[i] =>
              (Discrepancy(i) # 0 /\ available'[i] = ExpectedAvailable(i))
       /\ (maint.pc = "readTransactions" /\ budget' < budget) =>
            /\ available' = available
            /\ Cardinality(maint.todo) > 1 =>
                 /\ maint'.pc = "readTransactions"
                 /\ maint'.todo # maint.todo /\ maint'.todo \subseteq maint.todo]_vars

\* C35, amended: the same frame; when the read of an issuer's transaction
\* records returns an error, no counter changes and the loop goes on to the
\* remaining issuers; when the read throws, no counter changes and the run
\* ends there.
C35_RepairFrame ==
  [][(maint.kind = "fix" /\ maint' # maint) =>
       /\ balance' = balance /\ total' = total
       /\ shares' = shares /\ transactions' = transactions
       /\ \A i \in Issuers :
            available'[i] # available[i] =>
              (Discrepancy(i) # 0 /\ available'[i] = ExpectedAvailable(i))
       /\ (maint.pc = "readTransactions" /\ budget' < budget) =>
            /\ available' = available
            /\ (Cardinality(maint.todo) > 1 /\ ~hist'.threw) =>
                 /\ maint'.pc = "readTransactions"
                 /\ maint'.todo # maint.todo /\ maint'.todo \subseteq maint.todo
            /\ hist'.threw => maint'.pc = "done"]_vars

\* the read of one issuer's transaction records returned an error, and the
\* run went on to another issuer, whose counter it is about to rewrite
C35_Witness ==
  /\ maint.kind = "fix" /\ maint.pc = "update"
  /\ ~hist.clean /\ ~hist.threw
  /\ Discrepancy(maint.cur) # 0
  /\ Cardinality(maint.todo) < Cardinality(Issuers) - 1

\* a shares row without its id
Position(r) ==
  [held |-> r.id # 0, quantity |-> r.quantity, average_price |-> r.average_price]

\* the position executeTradeTransaction leaves to the buyer of order c from
\* the store s
SettledPosition(s, c) ==
  LET d == [c EXCEPT !.existing = s.shares[Key(c)]] IN
  IF d.existing.id # 0
    THEN IF NewQuantity(d) <= 0
           THEN IF SharesDeletePolicy THEN Position(NoShares) ELSE Position(d.existing)
           ELSE [held |-> TRUE, quantity |-> NewQuantity(d),
                 average_price |-> NewAveragePrice(d)]
    ELSE [held |-> TRUE, quantity |-> c.quantity, average_price |-> c.price]

\* call p has returned success and left, up to record ids, the store that
\* executeTradeTransaction leaves for its order from the store the call
\* started from
SettledAsOriginal(p) ==
  LET c == call[p] s == pre[p] IN
  /\ c.result.success
  /\ balance = [s.balance EXCEPT ![c.buyer] = @ - Sign(c) * TotalAmount(c)]
  /\ available = [s.available EXCEPT ![c.issuer] = @ - Sign(c) * c.quantity]
  /\ \A k \in Users \X Issuers :
       Position(shares[k]) =
         IF k = Key(c) THEN SettledPosition(s, c) ELSE Position(s.shares[k])
  /\ \E t \in transactions \ s.transactions :
       /\ transactions = s.transactions \cup {t}
       /\ t = TransactionRow(c, t.id)
       /\ c.result.transactionId = t.id

\* C32: the two entry points agree on valid orders. With orders run one at a
\* time and no store failure, a call of either entry point whose order is
\* valid against the store it starts from returns success and leaves the
\* same balances, available_shares, shares records and transaction records
\* (up to record ids) as the other entry point leaves for that order.
C32_SameOutcomeAndStore ==
  \A p \in Procs :
    (call[p].pc = "done" /\ NoFault /\ ValidOrder(pre[p], call[p]))
      => SettledAsOriginal(p)

\* the same for the calls of executeTradeTransaction alone
OriginalSettlesValidOrders ==
  \A p \in Procs :
    (call[p].pc = "done" /\ call[p].impl = "orig" /\ NoFault
       /\ ValidOrder(pre[p], call[p]))
      => SettledAsOriginal(p)

\* C37: under the policies of fix_trading_rls.sql, an update of a tradeable
\* profile's row by an authenticated user who is not its owner changes
\* available_shares only: total_shares, current_price and is_tradeable stay
\* as they were.
C37_NonOwnerChangesAvailableOnly ==
  [][\A r \in Authenticated, i \in Issuers :
       (r # i /\ profiles[i].is_tradeable /\ P_Update(r, i)) =>
         /\ total'[i] = total[i]
         /\ profiles'[i] = profiles[i]]_vars

====
